---------------------------- MODULE Spec2Model ----------------------------
(***************************************************************************)
(* A model of the chained hash table of src/hash_table.c.                  *)
(*                                                                         *)
(* The heap is explicit: every ht_entry is a record of `heap`, addressed   *)
(* by an entry pointer (a positive integer, NULL is 0), and the chains are *)
(* the pNext links of those records.  ht_hash_t is 64 bits wide; a hash is *)
(* kept as four 16-bit limbs (least significant first) so that the SDBM    *)
(* recurrence wraps modulo 2^64 exactly as the C code does.                *)
(***************************************************************************)
EXTENDS Integers, Sequences, FiniteSets, TLC

(***************************************************************************)
(* Return codes and constants of hash_table.h.                             *)
(***************************************************************************)
HT_OK ==
    0
HT_NOT_FOUND ==
    10
HT_DUPLICATE ==
    11
HT_ALLOC_ERR ==
    12
HT_ARG_NULL ==
    13
HT_MISUSE ==
    15
HT_DEFAULT_CAP ==
    31
HT_GROW_FACT ==
    2
\* HT_MAX_CAP is 0.7; it is kept as the fraction HT_MAX_CAP_NUM / HT_MAX_CAP_DEN.
HT_MAX_CAP_NUM ==
    7
HT_MAX_CAP_DEN ==
    10
\* (ht_size_t)-1, the bit pattern 0xFFFFFFFF; it is only ever stored and compared.
HT_NO_SIZE ==
    -1

\* The null data or entry pointer.
NULL == 0
\* Function pointers are names; HT_TRANSIENT is the null function pointer.
HT_TRANSIENT == "HT_TRANSIENT"
HT_STATIC == "HT_STATIC"
NULL_FN == HT_TRANSIENT

\* What the model records as the status of a call that did not return (the
\* process died in it): a value that is none of the return codes.
NO_RETURN == HT_MISUSE + 1

(***************************************************************************)
(* Bounds of the model.                                                    *)
(***************************************************************************)
\* Successful inserts one run of Spec makes.
MaxInserts ==
    3
\* Entries of the largest table SpecGrow starts from.
MaxFill ==
    21
\* Successful inserts one run of SpecGrow makes on top of its initial table.
MaxGrowInserts ==
    2
\* Successful inserts one run of SpecStrk makes.
MaxStrkInserts ==
    2

(***************************************************************************)
(* 64-bit arithmetic on limbs.                                             *)
(***************************************************************************)
LimbBase == 65536

\* The four limbs t (any integers) with carries propagated, modulo 2^64.
Norm64(t) ==
    LET r1 == t[1] % LimbBase
        c1 == t[1] \div LimbBase
        r2 == (t[2] + c1) % LimbBase
        c2 == (t[2] + c1) \div LimbBase
        r3 == (t[3] + c2) % LimbBase
        c3 == (t[3] + c2) \div LimbBase
        r4 == (t[4] + c3) % LimbBase
    IN  <<r1, r2, r3, r4>>

\* A small non-negative integer as an ht_hash_t.
ToHash(n) == Norm64(<<n, 0, 0, 0>>)

\* hash % capacity (capacity < 2^15), by Horner's rule over the limbs.
HashMod(hash, capacity) ==
    LET m4 == hash[4] % capacity
        m3 == (m4 * LimbBase + hash[3]) % capacity
        m2 == (m3 * LimbBase + hash[2]) % capacity
    IN  (m2 * LimbBase + hash[1]) % capacity

(***************************************************************************)
(* Hash functions.                                                         *)
(***************************************************************************)
\* One round of the SDBM loop: raw[i] + (hash << 6) + (hash << 16) - hash.
\* hash << 16 moves every limb up by one; hash << 6 multiplies every limb by 64.
SdbmStep(hash, byte) ==
    Norm64(<<byte + 64 * hash[1] - hash[1],
             64 * hash[2] + hash[1] - hash[2],
             64 * hash[3] + hash[2] - hash[3],
             64 * hash[4] + hash[3] - hash[4]>>)

\* The loop of default_hash_impl; i counts from 0 as in the source.
RECURSIVE SdbmLoop(_, _, _, _)
SdbmLoop(raw, key_size, i, hash) ==
    IF i < key_size
    THEN CHOOSE r \in {SdbmLoop(raw, key_size, j, h) :
                          j \in {i + 1}, h \in {SdbmStep(hash, raw[i + 1])}} : TRUE
    ELSE hash

default_hash_impl(key, key_size) == SdbmLoop(key, key_size, 0, ToHash(0))

\* Keys of the self-test: "Test", "Test2", "Test3" with their terminators.
StrTest == <<84, 101, 115, 116, 0>>
StrTest2 == <<84, 101, 115, 116, 50, 0>>
StrTest3 == <<84, 101, 115, 116, 51, 0>>
\* The bytes of key as strcmp reads them: up to the first zero byte.
RECURSIVE CStr(_)
CStr(key) ==
    IF key = <<>> \/ Head(key) = 0 THEN <<>>
    ELSE <<Head(key)>> \o CStr(Tail(key))

\* The hash function of the self-test; it reads the key as a C string and
\* ignores key_size.
dummy_hahser(key, key_size) ==
    IF CStr(key) = CStr(StrTest) THEN ToHash(1)
    ELSE IF CStr(key) = CStr(StrTest2) THEN ToHash(1 + HT_DEFAULT_CAP)
    ELSE IF CStr(key) = CStr(StrTest3) THEN ToHash(1 + (HT_DEFAULT_CAP * 2))
    ELSE ToHash(0)

HashFuncs == {"default_hash_impl", "dummy_hahser"}

\* The keys the callers of this model pass.  One-byte keys: the SDBM hash of
\* <<b>> is b, and that of <<0, b>> is b too.
Keys == {<<1>>, <<32>>, <<63>>, <<0, 1>>}
GrowKeys == {<<1>>, <<63>>, <<22>>, <<94>>}
\* The i-th key of the table SpecGrow starts from: 1, 32, 63, then 2, 3, ...
FillKey(i) ==
    IF i = 1 THEN <<1>> ELSE IF i = 2 THEN <<32>> ELSE IF i = 3 THEN <<63>>
    ELSE <<i - 2>>

HashOf(pfn, key, key_size) ==
    IF pfn = "dummy_hahser" THEN dummy_hahser(key, key_size)
    ELSE default_hash_impl(key, key_size)

\* The hashes of the whole keys above, computed once.
HashMemo ==
    [pfn \in HashFuncs |->
        [key \in Keys \cup GrowKeys \cup {<<b>> : b \in 1..32} \cup {StrTest, StrTest2, StrTest3} |->
            HashOf(pfn, key, Len(key))]]

\* pHt->pfnHash(pKey, key_size): the call through the function pointer.
CallHash(pfn, key, key_size) ==
    IF key \in DOMAIN HashMemo[pfn] /\ key_size = Len(key)
    THEN HashMemo[pfn][key]
    ELSE HashOf(pfn, key, key_size)

(***************************************************************************)
(* The heap.  heap maps every allocated ht_entry pointer to its record,    *)
(* mem maps every allocated data address to its bytes.                     *)
(***************************************************************************)
\* The address malloc returns for the data copy of entry pEntry.
CopyAddr(pEntry) == 0 - pEntry

Count(f, x) == IF x \in DOMAIN f THEN f[x] ELSE 0

Inc(f, x) ==
    [y \in (DOMAIN f) \cup {x} |-> IF y = x THEN Count(f, x) + 1 ELSE f[y]]

Without(f, x) == [y \in (DOMAIN f) \ {x} |-> f[y]]

With(f, x, v) == [y \in (DOMAIN f) \cup {x} |-> IF y = x THEN v ELSE f[y]]

\* calloc(n, sizeof(ht_entry*)): an array of n NULL pointers.
Calloc(n) == [i \in 0..(n - 1) |-> NULL]

(***************************************************************************)
(* place_item: put pEntry at the head of its bucket or behind the last     *)
(* entry of the bucket's chain.  Gives the array and the heap afterwards.  *)
(***************************************************************************)
RECURSIVE LastOfChain(_, _)
LastOfChain(heap, exist_entry) ==
    IF heap[exist_entry].pNext # NULL
    THEN LastOfChain(heap, heap[exist_entry].pNext)
    ELSE exist_entry

\* The entry put in front of the bucket's chain instead of behind it.
place_item_at_head(ppEntries, capacity, heap, pEntry) ==
    LET hash_pos == HashMod(heap[pEntry].hash, capacity)
    IN  [ppEntries |-> [ppEntries EXCEPT ![hash_pos] = pEntry],
         heap |-> [heap EXCEPT ![pEntry].pNext = ppEntries[hash_pos]]]

place_item(ppEntries, capacity, heap, pEntry) ==
    LET hash_pos == HashMod(heap[pEntry].hash, capacity)
    IN  IF ppEntries[hash_pos] = NULL
        THEN [ppEntries |-> [ppEntries EXCEPT ![hash_pos] = pEntry],
              heap |-> heap]
        ELSE [ppEntries |-> ppEntries,
              heap |-> [heap EXCEPT
                  ![LastOfChain(heap, ppEntries[hash_pos])].pNext = pEntry]]

(***************************************************************************)
(* grow_table: the calloc of the new array, then the two nested loops over *)
(* the old array and over each chain.  t is the hash_table record; alloc   *)
(* is "array" when the calloc fails.                                       *)
(***************************************************************************)
\* The loop body placing the entry by the old capacity instead of new_cap.
GrowStep_old_capacity(t, new_cap, st) ==
    IF st.entry = NULL
    THEN [st EXCEPT !.i = @ + 1,
                    !.entry = IF st.i + 1 < t.capacity
                              THEN t.ppEntries[st.i + 1] ELSE NULL]
    ELSE LET tmp_next == st.heap[st.entry].pNext
             cut == [st.heap EXCEPT ![st.entry].pNext = NULL]
             placed == place_item(st.new_array, t.capacity, cut, st.entry)
         IN  [st EXCEPT !.entry = tmp_next,
                        !.new_array = placed.ppEntries,
                        !.heap = placed.heap]

\* One pass of the loops' control: st is <<i, entry, new_array, heap>> and the
\* result is st after the inner loop body, or after ++i when entry is NULL.
GrowStep(t, new_cap, st) ==
    IF st.entry = NULL
    THEN [st EXCEPT !.i = @ + 1,
                    !.entry = IF st.i + 1 < t.capacity
                              THEN t.ppEntries[st.i + 1] ELSE NULL]
    ELSE LET tmp_next == st.heap[st.entry].pNext
             cut == [st.heap EXCEPT ![st.entry].pNext = NULL]
             placed == place_item(st.new_array, new_cap, cut, st.entry)
         IN  [st EXCEPT !.entry = tmp_next,
                        !.new_array = placed.ppEntries,
                        !.heap = placed.heap]

RECURSIVE GrowLoop(_, _, _)
GrowLoop(t, new_cap, st) ==
    IF st.i >= t.capacity THEN st
    ELSE CHOOSE r \in {GrowLoop(t, new_cap, s) : s \in {GrowStep(t, new_cap, st)}} : TRUE

GrowMove(t, new_cap, new_array, heap) ==
    GrowLoop(t, new_cap, [i |-> 0, entry |-> t.ppEntries[0],
                          new_array |-> new_array, heap |-> heap])

\* grow_table without the pHt->capacity = new_cap of line 160.
grow_table_keep_cap(t, heap, alloc) ==
    LET new_cap == t.capacity * HT_GROW_FACT
        moved == GrowMove(t, new_cap, Calloc(new_cap), heap)
    IN  IF alloc = "array" THEN [rc |-> HT_ALLOC_ERR, t |-> t, heap |-> heap]
        ELSE [rc |-> HT_OK, t |-> [t EXCEPT !.ppEntries = moved.new_array],
              heap |-> moved.heap]

\* grow_table with the capacity stored before the calloc is tested.
grow_table_capacity_first(t, heap, alloc) ==
    LET new_cap == t.capacity * HT_GROW_FACT
        moved == GrowMove(t, new_cap, Calloc(new_cap), heap)
    IN  IF alloc = "array"
        THEN [rc |-> HT_ALLOC_ERR, t |-> [t EXCEPT !.capacity = new_cap],
              heap |-> heap]
        ELSE [rc |-> HT_OK,
              t |-> [t EXCEPT !.capacity = new_cap,
                              !.ppEntries = moved.new_array],
              heap |-> moved.heap]

grow_table(t, heap, alloc) ==
    LET new_cap == t.capacity * HT_GROW_FACT
        moved == GrowMove(t, new_cap, Calloc(new_cap), heap)
    IN  IF alloc = "array" THEN [rc |-> HT_ALLOC_ERR, t |-> t, heap |-> heap]
        ELSE [rc |-> HT_OK,
              t |-> [t EXCEPT !.capacity = new_cap,
                              !.ppEntries = moved.new_array],
              heap |-> moved.heap]

(***************************************************************************)
(* hash_exists: scan the chain of bucket hash % capacity for an entry with *)
(* this hash.  rc is the function's result, found what it stores through   *)
(* ppFound_entry.                                                          *)
(***************************************************************************)
RECURSIVE ExistsLoop(_, _, _)
ExistsLoop(heap, entry, hash) ==
    IF entry = NULL THEN [rc |-> 0, found |-> NULL]
    ELSE IF heap[entry].hash = hash THEN [rc |-> 1, found |-> entry]
    ELSE ExistsLoop(heap, heap[entry].pNext, hash)

hash_exists_head_only(t, heap, hash) ==
    LET entry == t.ppEntries[HashMod(hash, t.capacity)]
    IN  IF entry # NULL /\ heap[entry].hash = hash
        THEN [rc |-> 1, found |-> entry]
        ELSE [rc |-> 0, found |-> NULL]

\* hash_exists starting at the second entry of the chain.
hash_exists_after_head(t, heap, hash) ==
    LET entry == t.ppEntries[HashMod(hash, t.capacity)]
    IN  IF entry = NULL THEN [rc |-> 0, found |-> NULL]
        ELSE ExistsLoop(heap, heap[entry].pNext, hash)

hash_exists(t, heap, hash) ==
    ExistsLoop(heap, t.ppEntries[HashMod(hash, t.capacity)], hash)

(***************************************************************************)
(* free_item.  m is the memory: heap, mem, and two records of what has     *)
(* been done: freed counts the times an entry record was released, calls   *)
(* the times a caller-supplied release function was invoked for an entry's *)
(* value.                                                                  *)
(***************************************************************************)
\* free_item without the call of line 104.
free_item_no_release(m, pEntry) ==
    IF pEntry = NULL THEN m
    ELSE [heap |-> Without(m.heap, pEntry),
          mem |-> IF m.heap[pEntry].pfnFree = HT_TRANSIENT
                  THEN Without(m.mem, m.heap[pEntry].pData) ELSE m.mem,
          freed |-> Inc(m.freed, pEntry),
          calls |-> m.calls]

free_item(m, pEntry) ==
    IF pEntry = NULL THEN m
    ELSE LET e == m.heap[pEntry]
             transient == e.pData # NULL /\ e.pfnFree = HT_TRANSIENT
             custom == e.pData # NULL /\ e.pfnFree # HT_TRANSIENT
                           /\ e.pfnFree # HT_STATIC
         IN  [heap |-> Without(m.heap, pEntry),
              mem |-> IF transient THEN Without(m.mem, e.pData) ELSE m.mem,
              freed |-> Inc(m.freed, pEntry),
              calls |-> IF custom THEN Inc(m.calls, pEntry) ELSE m.calls]

(***************************************************************************)
(* ht_free: the memory after the call.  pHt is NULL or the handle.         *)
(***************************************************************************)
\* The memory after the loop body for bucket i.
FreeStep(t, i, m) ==
    IF t.ppEntries[i] # NULL THEN free_item(m, t.ppEntries[i]) ELSE m

RECURSIVE FreeLoop(_, _, _)
FreeLoop(t, i, m) ==
    IF i < t.capacity
    THEN CHOOSE r \in {FreeLoop(t, j, n) : j \in {i + 1}, n \in {FreeStep(t, i, m)}} : TRUE
    ELSE m

ht_free(pHt, t, m) ==
    IF pHt # NULL THEN FreeLoop(t, 0, m) ELSE m

(***************************************************************************)
(* ht_get_item: rc, what the caller's output variables hold afterwards,    *)
(* and the table and the memory after the call.                            *)
(***************************************************************************)
\* ht_get_item with the not-found answer of lines 258-262 given for null
\* arguments too.
ht_get_item_null_as_absent(pHt, pKey, key, key_size, ppData, pData_size, out, t, m) ==
    IF pHt = NULL \/ pKey = NULL \/ ppData = NULL \/ pData_size = NULL
    THEN [rc |-> HT_NOT_FOUND, out |-> out, t |-> t, m |-> m]
    ELSE LET look == hash_exists(t, m.heap, CallHash(t.pfnHash, key, key_size))
         IN  IF look.rc # 0
             THEN [rc |-> HT_OK,
                   out |-> [pData |-> m.heap[look.found].pData,
                            data_size |-> m.heap[look.found].data_size],
                   t |-> t, m |-> m]
             ELSE [rc |-> HT_NOT_FOUND,
                   out |-> [pData |-> NULL, data_size |-> HT_NO_SIZE],
                   t |-> t, m |-> m]

\* ht_get_item that counts its lookups in pHt->size.
ht_get_item_counting(pHt, pKey, key, key_size, ppData, pData_size, out, t, m) ==
    IF pHt = NULL \/ pKey = NULL \/ ppData = NULL \/ pData_size = NULL
    THEN [rc |-> HT_ARG_NULL, out |-> out, t |-> t, m |-> m]
    ELSE LET look == hash_exists(t, m.heap, CallHash(t.pfnHash, key, key_size))
         IN  IF look.rc # 0
             THEN [rc |-> HT_OK,
                   out |-> [pData |-> m.heap[look.found].pData,
                            data_size |-> m.heap[look.found].data_size],
                   t |-> [t EXCEPT !.size = @ + 1], m |-> m]
             ELSE [rc |-> HT_NOT_FOUND,
                   out |-> [pData |-> NULL, data_size |-> HT_NO_SIZE],
                   t |-> t, m |-> m]

ht_get_item(pHt, pKey, key, key_size, ppData, pData_size, out, t, m) ==
    IF pHt = NULL \/ pKey = NULL \/ ppData = NULL \/ pData_size = NULL
    THEN [rc |-> HT_ARG_NULL, out |-> out, t |-> t, m |-> m]
    ELSE LET hash == CallHash(t.pfnHash, key, key_size)
             look == hash_exists(t, m.heap, hash)
         IN  IF look.rc # 0
             THEN [rc |-> HT_OK,
                   out |-> [pData |-> m.heap[look.found].pData,
                            data_size |-> m.heap[look.found].data_size],
                   t |-> t, m |-> m]
             ELSE [rc |-> HT_NOT_FOUND,
                   out |-> [pData |-> NULL, data_size |-> HT_NO_SIZE],
                   t |-> t, m |-> m]

ht_get_size(pHt, t) ==
    IF pHt = NULL THEN HT_NO_SIZE ELSE t.size

ht_has_key(pHt, pKey, key, key_size, t, m) ==
    IF pHt = NULL \/ pKey = NULL THEN 0
    ELSE hash_exists(t, m.heap, CallHash(t.pfnHash, key, key_size)).rc

(***************************************************************************)
(* ht_init.  alloc names the allocation that fails ("ok": none).           *)
(***************************************************************************)
NoTable ==
    [ppEntries |-> Calloc(0), size |-> 0, capacity |-> 0, pfnHash |-> NULL_FN]

ht_init(ppHt, alloc) ==
    IF ppHt = NULL THEN [rc |-> HT_ARG_NULL, t |-> NoTable]
    \* *ppHt is NULL and the test of line 315 looks at ppHt: line 320 stores
    \* through the null pointer.
    ELSE IF alloc = "table" THEN [rc |-> NO_RETURN, t |-> NoTable]
    ELSE IF alloc = "array" THEN [rc |-> HT_ALLOC_ERR, t |-> NoTable]
    ELSE [rc |-> HT_OK,
          t |-> [ppEntries |-> Calloc(HT_DEFAULT_CAP), size |-> 0,
                 capacity |-> HT_DEFAULT_CAP, pfnHash |-> "default_hash_impl"]]

(***************************************************************************)
(* ht_insert.  new_entry is the pointer malloc gives for the entry; alloc  *)
(* names the allocation that fails ("ok": none; "array" only matters when  *)
(* the table grows, "data" only for HT_TRANSIENT); ub chooses the outcome  *)
(* where the code's behaviour is undefined.                                *)
(***************************************************************************)
\* The load test that lets the table fill up: growth only when size + 1
\* exceeds the capacity itself.
NeedsGrowth_when_full(t) ==
    t.size + 1 > t.capacity

\* The load test made with the size before the insert instead of after it.
NeedsGrowth_current_size(t) ==
    t.size * HT_MAX_CAP_DEN > t.capacity * HT_MAX_CAP_NUM

NeedsGrowth(t) ==
    (t.size + 1) * HT_MAX_CAP_DEN > t.capacity * HT_MAX_CAP_NUM

\* The entry with the caller's pointer stored whatever the ownership tag.
NewEntry_store_pointer(key, key_size, pData, data_size, pfnFree, hash, new_entry) ==
    [pKey |-> SubSeq(key, 1, key_size), key_size |-> key_size, pData |-> pData,
     data_size |-> data_size, pfnFree |-> pfnFree, hash |-> hash, pNext |-> NULL]

NewEntry(key, key_size, pData, data_size, pfnFree, hash, new_entry) ==
    [pKey |-> SubSeq(key, 1, key_size),
     key_size |-> key_size,
     pData |-> IF pfnFree = HT_TRANSIENT THEN CopyAddr(new_entry) ELSE pData,
     data_size |-> data_size,
     pfnFree |-> pfnFree,
     hash |-> hash,
     pNext |-> NULL]

ht_insert(pHt, pKey, key, key_size, pData, data_size, pfnFree, new_entry, alloc, ub, t, m) ==
    IF pHt = NULL \/ pKey = NULL \/ pData = NULL
    THEN [rc |-> HT_ARG_NULL, t |-> t, m |-> m]
    ELSE IF t.pfnHash = NULL_FN
    THEN [rc |-> HT_ARG_NULL, t |-> t, m |-> m]
    ELSE LET hash == CallHash(t.pfnHash, key, key_size)
    IN  IF hash_exists(t, m.heap, hash).rc # 0
        THEN [rc |-> HT_DUPLICATE, t |-> t, m |-> m]
        ELSE LET g == IF NeedsGrowth(t) THEN grow_table(t, m.heap, alloc)
                      ELSE [rc |-> HT_OK, t |-> t, heap |-> m.heap]
                 mg == [m EXCEPT !.heap = g.heap]
        IN  IF g.rc # HT_OK
            THEN [rc |-> g.rc, t |-> g.t, m |-> mg]
            ELSE IF alloc = "entry"
            THEN [rc |-> HT_ALLOC_ERR, t |-> g.t, m |-> mg]
            \* The error path reads new_entry->pData, which was never set:
            \* with HT_TRANSIENT a non-null value there is passed to free.
            ELSE IF alloc = "key"
            THEN [rc |-> IF pfnFree = HT_TRANSIENT /\ ub = "crash"
                         THEN NO_RETURN ELSE HT_ALLOC_ERR,
                  t |-> g.t, m |-> mg]
            \* Line 424 tests new_entry, not new_entry->pData: memcpy then
            \* writes data_size bytes through the null pointer.
            ELSE IF alloc = "data" /\ pfnFree = HT_TRANSIENT
            THEN [rc |-> NO_RETURN, t |-> g.t, m |-> mg]
            ELSE LET e == NewEntry(key, key_size, pData, data_size, pfnFree,
                                   hash, new_entry)
                     placed == place_item(g.t.ppEntries, g.t.capacity,
                                          With(g.heap, new_entry, e), new_entry)
                 IN  [rc |-> HT_OK,
                      t |-> [g.t EXCEPT !.ppEntries = placed.ppEntries,
                                        !.size = @ + 1],
                      m |-> [m EXCEPT
                          !.heap = placed.heap,
                          !.mem = IF pfnFree = HT_TRANSIENT
                                  THEN With(m.mem, e.pData,
                                            SubSeq(m.mem[pData], 1, data_size))
                                  ELSE m.mem]]

(***************************************************************************)
(* ht_remove.  gone is the entry the call released (NULL: none).           *)
(***************************************************************************)
\* Line 530 with NULL stored instead of pEntry->pNext->pNext.
Unlink_to_null(heap, pEntry) ==
    [heap EXCEPT ![pEntry].pNext = NULL]

\* Line 530: pEntry->pNext = pEntry->pNext->pNext.
Unlink(heap, pEntry) ==
    [heap EXCEPT ![pEntry].pNext = heap[heap[pEntry].pNext].pNext]

RECURSIVE RemoveWalk(_, _, _, _, _)
\* The loop without the pHt->size -= 1 of line 536.
RemoveWalk_keep_size(pEntry, hash, ub, t, m) ==
    IF m.heap[pEntry].pNext = NULL
    THEN [rc |-> HT_NOT_FOUND, t |-> t, m |-> m, gone |-> NULL]
    ELSE IF m.heap[m.heap[pEntry].pNext].hash = hash
    THEN [rc |-> HT_OK, t |-> t,
          m |-> free_item([m EXCEPT !.heap = Unlink(m.heap, pEntry)],
                          m.heap[pEntry].pNext),
          gone |-> m.heap[pEntry].pNext]
    ELSE RemoveWalk(m.heap[pEntry].pNext, hash, ub, t, m)

\* The loop of lines 515-545, entered with pEntry an entry whose hash differs.
RemoveWalk(pEntry, hash, ub, t, m) ==
    IF m.heap[pEntry].pNext = NULL
    THEN [rc |-> HT_NOT_FOUND, t |-> t, m |-> m, gone |-> NULL]
    ELSE IF m.heap[m.heap[pEntry].pNext].hash = hash
    THEN LET pTmp == m.heap[pEntry].pNext
             after == m.heap[pTmp].pNext
             spliced == [m EXCEPT !.heap = Unlink(m.heap, pEntry)]
         IN  \* Line 544 moves pEntry to the successor of the removed entry and
             \* the loop condition reads pEntry->pNext before it reads done: with
             \* no successor that is a read through the null pointer.
             [rc |-> IF after = NULL /\ ub = "crash" THEN NO_RETURN ELSE HT_OK,
              t |-> [t EXCEPT !.size = @ - 1],
              m |-> free_item(spliced, pTmp),
              gone |-> pTmp]
    ELSE RemoveWalk(m.heap[pEntry].pNext, hash, ub, t, m)

\* ht_remove without the pHt->size -= 1 of line 504.
ht_remove_head_keeps_size(pHt, pKey, key, key_size, ub, t, m) ==
    IF pHt = NULL \/ pKey = NULL
    THEN [rc |-> HT_ARG_NULL, t |-> t, m |-> m, gone |-> NULL]
    ELSE LET hash == CallHash(t.pfnHash, key, key_size)
             hash_pos == HashMod(hash, t.capacity)
             pEntry == t.ppEntries[hash_pos]
    IN  IF pEntry = NULL
        THEN [rc |-> IF ub = "crash" THEN NO_RETURN ELSE HT_NOT_FOUND,
              t |-> t, m |-> m, gone |-> NULL]
        ELSE IF m.heap[pEntry].hash = hash
        THEN [rc |-> HT_OK,
              t |-> [t EXCEPT !.ppEntries[hash_pos] = m.heap[pEntry].pNext],
              m |-> free_item(m, pEntry),
              gone |-> pEntry]
        ELSE RemoveWalk(pEntry, hash, ub, t, m)

ht_remove(pHt, pKey, key, key_size, ub, t, m) ==
    IF pHt = NULL \/ pKey = NULL
    THEN [rc |-> HT_ARG_NULL, t |-> t, m |-> m, gone |-> NULL]
    ELSE LET hash == CallHash(t.pfnHash, key, key_size)
             hash_pos == HashMod(hash, t.capacity)
             pEntry == t.ppEntries[hash_pos]
    IN  \* Line 500 has no else: with an empty bucket it reads pEntry->hash
        \* through the null pointer.  Either the process dies there, or the
        \* read gives a hash that differs and a null pNext, and the call
        \* returns the HT_NOT_FOUND of line 494.
        IF pEntry = NULL
        THEN [rc |-> IF ub = "crash" THEN NO_RETURN ELSE HT_NOT_FOUND,
              t |-> t, m |-> m, gone |-> NULL]
        ELSE IF m.heap[pEntry].hash = hash
        THEN [rc |-> HT_OK,
              t |-> [t EXCEPT !.ppEntries[hash_pos] = m.heap[pEntry].pNext,
                              !.size = @ - 1],
              m |-> free_item(m, pEntry),
              gone |-> pEntry]
        ELSE RemoveWalk(pEntry, hash, ub, t, m)

(***************************************************************************)
(* ht_set_hash_func.                                                       *)
(***************************************************************************)
\* ht_set_hash_func without the test of line 568.
ht_set_hash_func_any_size(pHt, pFn, t) ==
    IF pHt = NULL \/ pFn = NULL_FN THEN [rc |-> HT_ARG_NULL, t |-> t]
    ELSE [rc |-> HT_OK, t |-> [t EXCEPT !.pfnHash = pFn]]

ht_set_hash_func(pHt, pFn, t) ==
    IF pHt = NULL \/ pFn = NULL_FN THEN [rc |-> HT_ARG_NULL, t |-> t]
    ELSE IF t.size > 0 THEN [rc |-> HT_MISUSE, t |-> t]
    ELSE [rc |-> HT_OK, t |-> [t EXCEPT !.pfnHash = pFn]]

(***************************************************************************)
(* The string-key layer: each function tests pzKey and forwards to the     *)
(* core function with the key size strlen(pzKey) + 1.                      *)
(***************************************************************************)
STRLEN_P1(key) == Len(CStr(key)) + 1

ht_strk_get_item(pHt, pzKey, key, ppData, pData_size, out, t, m) ==
    IF pzKey = NULL THEN [rc |-> HT_ARG_NULL, out |-> out, t |-> t, m |-> m]
    ELSE ht_get_item(pHt, pzKey, key, STRLEN_P1(key), ppData, pData_size,
                     out, t, m)

ht_strk_has_key(pHt, pzKey, key, t, m) ==
    IF pzKey = NULL THEN HT_ARG_NULL
    ELSE ht_has_key(pHt, pzKey, key, STRLEN_P1(key), t, m)

ht_strk_insert(pHt, pzKey, key, pData, data_size, pfnFree, new_entry, alloc, ub, t, m) ==
    IF pzKey = NULL THEN [rc |-> HT_ARG_NULL, t |-> t, m |-> m]
    ELSE ht_insert(pHt, pzKey, key, STRLEN_P1(key), pData, data_size, pfnFree,
                   new_entry, alloc, ub, t, m)

ht_strk_remove(pHt, pzKey, key, ub, t, m) ==
    IF pzKey = NULL
    THEN [rc |-> HT_ARG_NULL, t |-> t, m |-> m, gone |-> NULL]
    ELSE ht_remove(pHt, pzKey, key, STRLEN_P1(key), ub, t, m)

(***************************************************************************)
(* The caller.                                                             *)
(***************************************************************************)
\* The addresses the caller passes: its table handle, a key, its data
\* buffer, its two output variables.
Handle == NULL + 1
KeyAddr == NULL + 1
DataAddr == NULL + 1
OutAddr == NULL + 1

\* char data[] = "Data" of the self-test, and the buffer after memset(data, 0, ..).
DataBytes == <<68, 97, 116, 97, 0>>
ZeroBytes == [i \in 1..Len(DataBytes) |-> 0]

\* The ownership tag and the size the caller inserts a key's value with.
FreeFuncs == {HT_TRANSIENT, HT_STATIC, "dummy_free"}
ValueArgs(key) ==
    IF key[Len(key)] % 3 = 1 THEN {[pfnFree |-> HT_TRANSIENT, data_size |-> Len(DataBytes)]}
    ELSE IF key[Len(key)] % 3 = 2 THEN {[pfnFree |-> HT_STATIC, data_size |-> Len(DataBytes)]}
    ELSE {[pfnFree |-> "dummy_free", data_size |-> 2]}

\* Which allocation of a call fails, and which outcome undefined behaviour has.
InsertAllocs == {"ok", "array", "entry", "key", "data"}
InitAllocs == {"ok", "table", "array"}
UbOutcomes == {"benign", "crash"}

Empty == [x \in {} |-> NULL]

VARIABLES
    phase,      \* "none", "live", "freed" (after ht_free), "crashed"
    ppEntries, size, capacity, pfnHash,    \* struct hash_table
    heap,       \* the allocated ht_entry records
    mem,        \* the allocated data buffers
    freed,      \* entry |-> times free_item released it
    calls,      \* entry |-> times its release function was invoked
    op, rc,     \* the last call and what it returned (HT_OK for a void call)
    out,        \* what the last call stored in *ppData and *pData_size
    okIns, okRem,   \* calls of ht_insert / ht_remove that returned HT_OK
    removed,    \* the entries ht_remove released
    expected    \* key |-> what its last successful insert stored, until
                \* ht_remove of that key returns HT_OK

vars == <<phase, ppEntries, size, capacity, pfnHash, heap, mem, freed, calls, op, rc, out, okIns, okRem, removed, expected>>

Table ==
    [ppEntries |-> ppEntries, size |-> size, capacity |-> capacity,
     pfnHash |-> pfnHash]

Memory == [heap |-> heap, mem |-> mem, freed |-> freed, calls |-> calls]

SetTable(t) ==
    /\ ppEntries' = t.ppEntries
    /\ size' = t.size
    /\ capacity' = t.capacity
    /\ pfnHash' = t.pfnHash

SetMemory(m) ==
    /\ heap' = m.heap
    /\ mem' = m.mem
    /\ freed' = m.freed
    /\ calls' = m.calls

\* The value an entry holds: the bytes of its own copy, or the caller's pointer.
StoredValue(e, memory) ==
    [ptr |-> IF e.pfnFree = HT_TRANSIENT THEN NULL ELSE e.pData,
     bytes |-> IF e.pfnFree = HT_TRANSIENT THEN memory[e.pData] ELSE <<>>,
     size |-> e.data_size]

NoOut == [pData |-> NULL, data_size |-> 0]

Init ==
    /\ phase = "none"
    /\ ppEntries = NoTable.ppEntries
    /\ size = NoTable.size
    /\ capacity = NoTable.capacity
    /\ pfnHash = NoTable.pfnHash
    /\ heap = Empty
    /\ mem = [a \in {DataAddr} |-> DataBytes]
    /\ freed = Empty
    /\ calls = Empty
    /\ op = "none"
    /\ rc = HT_OK
    /\ out = NoOut
    /\ okIns = 0
    /\ okRem = 0
    /\ removed = {}
    /\ expected = Empty

HtInit ==
    /\ phase = "none"
    /\ \E ppHt \in {NULL, Handle}, alloc \in InitAllocs :
        /\ ppHt = NULL => alloc = "ok"
        /\ LET r == ht_init(ppHt, alloc)
           IN  /\ phase' = IF r.rc = HT_OK THEN "live"
                           ELSE IF r.rc = NO_RETURN THEN "crashed" ELSE "none"
               /\ SetTable(r.t)
               /\ rc' = r.rc
    /\ op' = "ht_init"
    /\ out' = NoOut
    /\ UNCHANGED <<heap, mem, freed, calls, okIns, okRem, removed, expected>>

\* The pointer arguments of a call: all valid, or exactly one of them null
\* (n names the null one; the calls with a null pointer are made for one key).
Ptr(n, name, addr) == IF n = name THEN NULL ELSE addr
SomeKey(K) == CHOOSE key \in K : TRUE

Insert(K, limit) ==
    /\ phase = "live"
    /\ okIns < limit
    /\ \E key \in K, n \in {"none", "pHt", "pKey", "pData"},
          alloc \in InsertAllocs, ub \in UbOutcomes :
        /\ n # "none" => alloc = "ok" /\ ub = "benign" /\ key = SomeKey(K)
        \* The outcomes that differ: the array is only allocated when the table
        \* grows, the data copy only for HT_TRANSIENT, and the undefined read
        \* is on the path of a failed key allocation.
        /\ alloc = "array" => NeedsGrowth(Table)
        /\ ub = "crash" => alloc = "key"
        /\ \E v \in ValueArgs(key) :
            /\ alloc = "data" => v.pfnFree = HT_TRANSIENT
            /\ ub = "crash" => v.pfnFree = HT_TRANSIENT
            /\ LET r == ht_insert(Ptr(n, "pHt", Handle), Ptr(n, "pKey", KeyAddr),
                               key, Len(key), Ptr(n, "pData", DataAddr),
                               v.data_size, v.pfnFree, okIns + 1, alloc, ub,
                               Table, Memory)
               IN
                /\ phase' = IF r.rc = NO_RETURN THEN "crashed" ELSE "live"
                /\ SetTable(r.t)
                /\ SetMemory(r.m)
                /\ rc' = r.rc
                /\ okIns' = IF r.rc = HT_OK THEN okIns + 1 ELSE okIns
                /\ expected' =
                     IF r.rc = HT_OK
                     THEN With(expected, key,
                               StoredValue(r.m.heap[okIns + 1], r.m.mem))
                     ELSE expected
    /\ op' = "ht_insert"
    /\ out' = NoOut
    /\ UNCHANGED <<okRem, removed>>

Remove(K) ==
    /\ phase = "live"
    /\ \E key \in K, n \in {"none", "pHt", "pKey"}, ub \in UbOutcomes :
        /\ n # "none" => ub = "benign" /\ key = SomeKey(K)
        /\ LET r == ht_remove(Ptr(n, "pHt", Handle), Ptr(n, "pKey", KeyAddr),
                              key, Len(key), ub, Table, Memory)
           IN  /\ phase' = IF r.rc = NO_RETURN THEN "crashed" ELSE "live"
               /\ SetTable(r.t)
               /\ SetMemory(r.m)
               /\ rc' = r.rc
               /\ okRem' = IF r.rc = HT_OK THEN okRem + 1 ELSE okRem
               /\ removed' = IF r.gone # NULL THEN removed \cup {r.gone}
                             ELSE removed
               /\ expected' = IF r.rc = HT_OK /\ key \in DOMAIN expected
                              THEN Without(expected, key) ELSE expected
    /\ op' = "ht_remove"
    /\ out' = NoOut
    /\ UNCHANGED <<okIns>>

GetItem(K) ==
    /\ phase = "live"
    /\ \E key \in K, n \in {"none", "pHt", "pKey", "ppData", "pData_size"} :
        /\ n # "none" => key = SomeKey(K)
        /\ LET r == ht_get_item(Ptr(n, "pHt", Handle), Ptr(n, "pKey", KeyAddr),
                                key, Len(key), Ptr(n, "ppData", OutAddr),
                                Ptr(n, "pData_size", OutAddr), NoOut, Table, Memory)
           IN  /\ rc' = r.rc
               /\ out' = r.out
               /\ SetTable(r.t)
               /\ SetMemory(r.m)
    /\ op' = "ht_get_item"
    /\ UNCHANGED <<phase, okIns, okRem, removed, expected>>

HasKey(K) ==
    /\ phase = "live"
    /\ \E key \in K, n \in {"none", "pHt", "pKey"} :
        /\ n # "none" => key = SomeKey(K)
        /\ rc' = ht_has_key(Ptr(n, "pHt", Handle), Ptr(n, "pKey", KeyAddr),
                         key, Len(key), Table, Memory)
    /\ op' = "ht_has_key"
    /\ out' = NoOut
    /\ UNCHANGED <<phase, ppEntries, size, capacity, pfnHash, heap, mem, freed, calls, okIns, okRem, removed, expected>>

GetSize ==
    /\ phase = "live"
    /\ \E pHt \in {NULL, Handle} : rc' = ht_get_size(pHt, Table)
    /\ op' = "ht_get_size"
    /\ out' = NoOut
    /\ UNCHANGED <<phase, ppEntries, size, capacity, pfnHash, heap, mem, freed, calls, okIns, okRem, removed, expected>>

SetHashFunc ==
    /\ phase = "live"
    /\ \E pHt \in {NULL, Handle}, pFn \in HashFuncs \cup {NULL_FN} :
        LET r == ht_set_hash_func(pHt, pFn, Table)
        IN  /\ SetTable(r.t)
            /\ rc' = r.rc
    /\ op' = "ht_set_hash_func"
    /\ out' = NoOut
    /\ UNCHANGED <<phase, heap, mem, freed, calls, okIns, okRem, removed, expected>>

\* memset(data, 0, sizeof(data)): the caller overwrites its own buffer.
CallerWrite ==
    /\ phase = "live"
    /\ mem' = [mem EXCEPT ![DataAddr] = ZeroBytes]
    /\ op' = "memset"
    /\ rc' = HT_OK
    /\ out' = NoOut
    /\ UNCHANGED <<phase, ppEntries, size, capacity, pfnHash, heap, freed, calls, okIns, okRem, removed, expected>>

HtFree ==
    /\ phase = "live"
    /\ \E pHt \in {NULL, Handle} :
        /\ phase' = IF pHt = NULL THEN "live" ELSE "freed"
        /\ SetMemory(ht_free(pHt, Table, Memory))
        /\ SetTable(IF pHt = NULL THEN Table ELSE NoTable)
    /\ op' = "ht_free"
    /\ rc' = HT_OK
    /\ out' = NoOut
    /\ UNCHANGED <<okIns, okRem, removed, expected>>

Next ==
    \/ HtInit
    \/ Insert(Keys, MaxInserts)
    \/ Remove(Keys)
    \/ GetItem(Keys)
    \/ HasKey(Keys)
    \/ GetSize
    \/ SetHashFunc
    \/ CallerWrite
    \/ HtFree

Spec == Init /\ [][Next]_vars

(***************************************************************************)
(* SpecGrow starts from a table that n inserts have filled, just below the *)
(* load factor at which the next insert grows it: the table, the memory    *)
(* and the expectations after ht_init and ht_insert of FillKey(1..n).      *)
(***************************************************************************)
FillStep(p, n) ==
    LET key == FillKey(n)
        v == CHOOSE v \in ValueArgs(key) : TRUE
    IN  CHOOSE f \in
            {[t |-> r.t, m |-> r.m,
              expected |-> With(p.expected, key,
                                StoredValue(r.m.heap[n], r.m.mem))] :
             r \in {ht_insert(Handle, KeyAddr, key, Len(key), DataAddr,
                              v.data_size, v.pfnFree, n, "ok", "benign",
                              p.t, p.m)}} : TRUE

RECURSIVE Filled(_)
Filled(n) ==
    IF n = 0
    THEN [t |-> ht_init(Handle, "ok").t,
          m |-> [heap |-> Empty, mem |-> [a \in {DataAddr} |-> DataBytes],
                 freed |-> Empty, calls |-> Empty],
          expected |-> Empty]
    ELSE CHOOSE f \in {FillStep(p, n) : p \in {Filled(n - 1)}} : TRUE

\* The tables SpecGrow starts from, computed once.
FilledTables == [n \in {MaxFill} |-> Filled(n)]

InitGrow ==
    \E n \in DOMAIN FilledTables :
        \E f \in {FilledTables[n]} :
            /\ phase = "live"
            /\ ppEntries = f.t.ppEntries
            /\ size = f.t.size
            /\ capacity = f.t.capacity
            /\ pfnHash = f.t.pfnHash
            /\ heap = f.m.heap
            /\ mem = f.m.mem
            /\ freed = f.m.freed
            /\ calls = f.m.calls
            /\ op = "ht_insert"
            /\ rc = HT_OK
            /\ out = NoOut
            /\ okIns = n
            /\ okRem = 0
            /\ removed = {}
            /\ expected = f.expected

NextGrow ==
    \/ Insert(GrowKeys, MaxFill + MaxGrowInserts)
    \/ Remove(GrowKeys)
    \/ GetItem(GrowKeys)
    \/ HasKey(GrowKeys)
    \/ GetSize

SpecGrow == InitGrow /\ [][NextGrow]_vars

(***************************************************************************)
(* SpecStrk: a caller that uses the string-key layer, with the keys of the *)
(* self-test, beside ht_init, ht_has_key and ht_set_hash_func.             *)
(***************************************************************************)
StrKeys == {StrTest, StrTest2, StrTest3}

StrkInsert ==
    /\ phase = "live"
    /\ okIns < MaxStrkInserts
    /\ \E key \in StrKeys, n \in {"none", "pHt", "pzKey", "pData"},
          alloc \in InsertAllocs, ub \in UbOutcomes :
        /\ n # "none" => alloc = "ok" /\ ub = "benign" /\ key = SomeKey(StrKeys)
        /\ alloc = "array" => NeedsGrowth(Table)
        /\ ub = "crash" => alloc = "key"
        /\ \E v \in ValueArgs(key) :
            /\ alloc = "data" => v.pfnFree = HT_TRANSIENT
            /\ ub = "crash" => v.pfnFree = HT_TRANSIENT
            /\ LET r == ht_strk_insert(Ptr(n, "pHt", Handle),
                                      Ptr(n, "pzKey", KeyAddr), key,
                                      Ptr(n, "pData", DataAddr), v.data_size,
                                      v.pfnFree, okIns + 1, alloc, ub,
                                      Table, Memory)
               IN
                /\ phase' = IF r.rc = NO_RETURN THEN "crashed" ELSE "live"
                /\ SetTable(r.t)
                /\ SetMemory(r.m)
                /\ rc' = r.rc
                /\ okIns' = IF r.rc = HT_OK THEN okIns + 1 ELSE okIns
                /\ expected' =
                     IF r.rc = HT_OK
                     THEN With(expected, key,
                               StoredValue(r.m.heap[okIns + 1], r.m.mem))
                     ELSE expected
    /\ op' = "ht_strk_insert"
    /\ out' = NoOut
    /\ UNCHANGED <<okRem, removed>>

StrkRemove ==
    /\ phase = "live"
    /\ \E key \in StrKeys, n \in {"none", "pHt", "pzKey"}, ub \in UbOutcomes :
        /\ n # "none" => ub = "benign" /\ key = SomeKey(StrKeys)
        /\ LET r == ht_strk_remove(Ptr(n, "pHt", Handle),
                                   Ptr(n, "pzKey", KeyAddr), key, ub,
                                   Table, Memory)
           IN  /\ phase' = IF r.rc = NO_RETURN THEN "crashed" ELSE "live"
               /\ SetTable(r.t)
               /\ SetMemory(r.m)
               /\ rc' = r.rc
               /\ okRem' = IF r.rc = HT_OK THEN okRem + 1 ELSE okRem
               /\ removed' = IF r.gone # NULL THEN removed \cup {r.gone}
                             ELSE removed
               /\ expected' = IF r.rc = HT_OK /\ key \in DOMAIN expected
                              THEN Without(expected, key) ELSE expected
    /\ op' = "ht_strk_remove"
    /\ out' = NoOut
    /\ UNCHANGED <<okIns>>

StrkGetItem ==
    /\ phase = "live"
    /\ \E key \in StrKeys,
          n \in {"none", "pHt", "pzKey", "ppData", "pData_size"} :
        /\ n # "none" => key = SomeKey(StrKeys)
        /\ LET r == ht_strk_get_item(Ptr(n, "pHt", Handle),
                                     Ptr(n, "pzKey", KeyAddr), key,
                                     Ptr(n, "ppData", OutAddr),
                                     Ptr(n, "pData_size", OutAddr), NoOut,
                                     Table, Memory)
           IN  /\ rc' = r.rc
               /\ out' = r.out
               /\ SetTable(r.t)
               /\ SetMemory(r.m)
    /\ op' = "ht_strk_get_item"
    /\ UNCHANGED <<phase, okIns, okRem, removed, expected>>

StrkHasKey ==
    /\ phase = "live"
    /\ \E key \in StrKeys, n \in {"none", "pHt", "pzKey"} :
        /\ n # "none" => key = SomeKey(StrKeys)
        /\ rc' = ht_strk_has_key(Ptr(n, "pHt", Handle),
                                 Ptr(n, "pzKey", KeyAddr), key, Table, Memory)
    /\ op' = "ht_strk_has_key"
    /\ out' = NoOut
    /\ UNCHANGED <<phase, ppEntries, size, capacity, pfnHash, heap, mem, freed, calls, okIns, okRem, removed, expected>>

NextStrk ==
    \/ HtInit
    \/ StrkInsert
    \/ StrkRemove
    \/ StrkGetItem
    \/ StrkHasKey
    \/ HasKey(StrKeys)
    \/ SetHashFunc

SpecStrk == Init /\ [][NextStrk]_vars

(***************************************************************************)
(* What a caller can observe, and the calls a step can be.                 *)
(***************************************************************************)
\* The entries of the chain that starts at entry, in chain order.
RECURSIVE ChainSeq(_, _)
ChainSeq(h, entry) ==
    IF entry = NULL THEN <<>> ELSE <<entry>> \o ChainSeq(h, h[entry].pNext)

Range(s) == {s[i] : i \in DOMAIN s}

\* The entries of the table t: those on the chains of its buckets.
LiveEntries(t, h) ==
    UNION {Range(ChainSeq(h, t.ppEntries[b])) : b \in DOMAIN t.ppEntries}

\* The entries of t whose key has the bytes of key.
EntriesOf(key, t, h) == {e \in LiveEntries(t, h) : h[e].pKey = key}

\* ht_get_item for key with valid arguments, on table t and memory m.
Lookup(key, t, m) ==
    ht_get_item(Handle, KeyAddr, key, Len(key), OutAddr, OutAddr, NoOut, t, m)

\* The lookup of key gives HT_OK and the value val (a StoredValue): the same
\* size, and the same bytes for an owned copy, the same pointer otherwise.
Reads(key, val, t, m) ==
    LET r == Lookup(key, t, m)
    IN  /\ r.rc = HT_OK
        /\ r.out.data_size = val.size
        /\ IF val.ptr = NULL
           THEN /\ r.out.pData \in DOMAIN m.mem
                /\ SubSeq(m.mem[r.out.pData], 1, val.size) = val.bytes
           ELSE r.out.pData = val.ptr

\* This step is the call ht_insert(pHt, key, Len(key), data, v.data_size,
\* v.pfnFree) with allocation outcome alloc and undefined-behaviour outcome ub.
InsertCall(key, v, alloc, ub) ==
    /\ op' = "ht_insert"
    /\ LET r == ht_insert(Handle, KeyAddr, key, Len(key), DataAddr, v.data_size,
                          v.pfnFree, okIns + 1, alloc, ub, Table, Memory)
       IN  rc' = r.rc /\ Table' = r.t /\ Memory' = r.m

\* This step is the call ht_remove(pHt, key, Len(key)).
RemoveCall(key, ub) ==
    /\ op' = "ht_remove"
    /\ LET r == ht_remove(Handle, KeyAddr, key, Len(key), ub, Table, Memory)
       IN  rc' = r.rc /\ Table' = r.t /\ Memory' = r.m

\* This step is the call ht_set_hash_func(pHt, pFn).
SetHashCall(pFn) ==
    /\ op' = "ht_set_hash_func"
    /\ LET r == ht_set_hash_func(Handle, pFn, Table)
       IN  rc' = r.rc /\ Table' = r.t

(***************************************************************************)
(* C1.  After ht_insert(k, v, n) has returned HT_OK, ht_get_item(k) gives  *)
(* HT_OK with that value and the size n in every later state of the live  *)
(* table, whatever inserts, growths and removes of other keys come in      *)
(* between, until ht_remove(k) returns HT_OK or the table is freed.        *)
(* expected holds exactly those keys with what was stored for them.        *)
(***************************************************************************)
C1_GetReturnsInserted ==
    phase = "live" =>
        \A k \in DOMAIN expected : Reads(k, expected[k], Table, Memory)

\* A key was inserted, another key was removed with HT_OK, and the lookup of
\* the inserted key is answered.
C1_Witness ==
    /\ phase = "live"
    /\ op = "ht_get_item"
    /\ okRem > 0
    /\ DOMAIN expected # {}

(***************************************************************************)
(* C2.  ht_insert of a key that has an entry in the table returns          *)
(* HT_DUPLICATE and leaves size, capacity, the bucket array, every entry   *)
(* (so every chain and every stored value) and the data memory as they     *)
(* were; in particular it does not grow a table that is at its load limit. *)
(***************************************************************************)
C2_DuplicateInsert ==
    [][op' = "ht_insert" =>
        \A key \in {k \in GrowKeys : EntriesOf(k, Table, heap) # {}} :
            \A v \in ValueArgs(key), alloc \in InsertAllocs, ub \in UbOutcomes :
                InsertCall(key, v, alloc, ub)
                => /\ rc' = HT_DUPLICATE
                   /\ size' = size /\ capacity' = capacity
                   /\ ppEntries' = ppEntries /\ heap' = heap /\ mem' = mem]_vars

\* A duplicate was rejected by a table whose next insert has to grow it.
C2_Witness ==
    /\ op = "ht_insert"
    /\ rc = HT_DUPLICATE
    /\ NeedsGrowth(Table)
    /\ capacity = HT_DEFAULT_CAP

(***************************************************************************)
(* C3.  While the table lives, ht_get_size is the number of ht_insert      *)
(* calls that returned HT_OK minus the number of ht_remove calls that      *)
(* returned HT_OK.  okIns and okRem change only with those calls, so a     *)
(* call that returns another status leaves the size as it was.             *)
(***************************************************************************)
C3_SizeIsInsertsMinusRemoves ==
    phase = "live" => ht_get_size(Handle, Table) = okIns - okRem

\* After inserts and removes, calls of both kinds have failed.
C3_Witness ==
    /\ phase = "live"
    /\ okIns > 1 /\ okRem > 0
    /\ op \in {"ht_insert", "ht_remove"}
    /\ rc \in {HT_DUPLICATE, HT_NOT_FOUND, HT_ALLOC_ERR}

(***************************************************************************)
(* C4.  An ht_insert that finds the table at its load limit and returns    *)
(* (HT_OK, or HT_ALLOC_ERR when one of its allocations fails) leaves every *)
(* entry that was in the table retrievable by its key with the value and   *)
(* size it had, the entry record itself not replaced; the entries of the   *)
(* table afterwards are the old ones plus, on HT_OK, exactly the new one,  *)
(* each on one chain once.                                                 *)
(***************************************************************************)
\* The number of chain positions of the buckets b, b + 1, ... of table t.
RECURSIVE ChainTotal(_, _, _)
ChainTotal(t, h, b) ==
    IF b \notin DOMAIN t.ppEntries THEN 0
    ELSE Len(ChainSeq(h, t.ppEntries[b])) + ChainTotal(t, h, b + 1)

C4_GrowthKeepsEntries ==
    [][(op' = "ht_insert" /\ NeedsGrowth(Table) /\ rc' \in {HT_OK, HT_ALLOC_ERR})
       => LET old == LiveEntries(Table, heap)
              new == LiveEntries(Table', heap')
          IN  /\ \A e \in old :
                    /\ e \in DOMAIN heap'
                    /\ heap'[e] = [heap[e] EXCEPT !.pNext = heap'[e].pNext]
                    /\ Reads(heap[e].pKey, StoredValue(heap[e], mem),
                             Table', Memory')
              /\ new = old \cup (IF rc' = HT_OK THEN {okIns + 1} ELSE {})
              /\ ChainTotal(Table', heap', 0) = Cardinality(new)]_vars

\* The insert after MaxFill others has grown the table and returned HT_OK.
C4_Witness ==
    /\ op = "ht_insert"
    /\ rc = HT_OK
    /\ capacity = HT_DEFAULT_CAP * HT_GROW_FACT
    /\ size > MaxFill

(***************************************************************************)
(* C5.  ht_remove of the key of an entry that has a predecessor and a      *)
(* successor on its chain returns HT_OK; afterwards the lookup of that key *)
(* gives HT_NOT_FOUND, the chain is the old chain without that entry, in   *)
(* the same order, and every other entry of it is retrievable by its key   *)
(* with its value.                                                         *)
(***************************************************************************)
C5_RemoveMidChain ==
    [][op' = "ht_remove" =>
        \A b \in DOMAIN ppEntries :
            LET c == ChainSeq(heap, ppEntries[b])
            IN  \A i \in 2..(Len(c) - 1), ub \in UbOutcomes :
                    RemoveCall(heap[c[i]].pKey, ub)
                    => /\ rc' = HT_OK
                       /\ Lookup(heap[c[i]].pKey, Table', Memory').rc
                              = HT_NOT_FOUND
                       /\ ChainSeq(heap', ppEntries'[b])
                              = SubSeq(c, 1, i - 1) \o SubSeq(c, i + 1, Len(c))
                       /\ \A j \in (DOMAIN c) \ {i} :
                              Reads(heap[c[j]].pKey,
                                    StoredValue(heap[c[j]], mem),
                                    Table', Memory')]_vars

\* Three entries were chained in one bucket and the second was removed.
C5_Witness ==
    /\ op = "ht_remove"
    /\ rc = HT_OK
    /\ removed = {2}
    /\ \E b \in DOMAIN ppEntries : ChainSeq(heap, ppEntries[b]) = <<1, 3>>

(***************************************************************************)
(* C6.  After ht_free every entry the table held has been released exactly *)
(* once, whatever its place on its chain: every entry record (with its key *)
(* copy) ever allocated has been released once, by ht_remove or by         *)
(* ht_free, every owned copy of a value is freed while the caller's buffer *)
(* is left alone, and no release function has been invoked twice.          *)
(***************************************************************************)
C6_FreeReleasesAll ==
    phase = "freed" =>
        /\ \A e \in 1..okIns : Count(freed, e) = 1
        /\ DOMAIN heap = {}
        /\ DOMAIN mem = {DataAddr}
        /\ \A e \in DOMAIN calls : calls[e] = 1

\* A table with two entries on one chain has been freed.
C6_Witness ==
    /\ phase = "freed"
    /\ okIns - okRem > 1

(***************************************************************************)
(* C7.  When ht_remove releases an entry that was inserted with a release  *)
(* function of the caller, that function has not been invoked for the      *)
(* entry before and is invoked exactly once in that call; and no later     *)
(* step, ht_free included, invokes it again for an entry ht_remove has     *)
(* released.                                                               *)
(***************************************************************************)
C7_ReleaseOnceAtRemove ==
    [][/\ \A e \in DOMAIN heap :
            (/\ heap[e].pfnFree \notin {HT_TRANSIENT, HT_STATIC}
             /\ op' = "ht_remove"
             /\ e \notin DOMAIN heap')
            => Count(calls, e) = 0 /\ Count(calls', e) = 1
       /\ \A e \in removed : Count(calls', e) = Count(calls, e)]_vars

\* An entry with a release function was removed and the table freed later.
C7_Witness ==
    /\ phase = "freed"
    /\ \E e \in removed : Count(calls, e) = 1

(***************************************************************************)
(* C8.  When the caller overwrites its buffer, the lookup of a key whose   *)
(* entry was inserted with HT_TRANSIENT gives the same status, the same    *)
(* pointer and size, and the same bytes behind the pointer as before.      *)
(***************************************************************************)
C8_CopyIndependent ==
    [][(op' = "memset" /\ mem'[DataAddr] # mem[DataAddr]) =>
        \A k \in Keys :
            (\E e \in EntriesOf(k, Table, heap) : heap[e].pfnFree = HT_TRANSIENT)
            => LET before == Lookup(k, Table, Memory)
                   after == Lookup(k, Table', Memory')
               IN  /\ after.rc = before.rc
                   /\ after.out = before.out
                   /\ after.rc = HT_OK
                   /\ mem'[after.out.pData] = mem[before.out.pData]]_vars

\* The buffer is zeroed and the copy of an entry still holds the old bytes.
C8_Witness ==
    /\ op = "memset"
    /\ mem[DataAddr] = ZeroBytes
    /\ \E e \in DOMAIN heap :
        /\ heap[e].pfnFree = HT_TRANSIENT
        /\ mem[heap[e].pData] = DataBytes

(***************************************************************************)
(* C9.  ht_set_hash_func with valid arguments returns HT_MISUSE on a table *)
(* with size > 0 and leaves the hash function and the entries as they      *)
(* were; on a table with size = 0 it returns HT_OK and installs the        *)
(* function.  Every step leads to a state in which the stored hash of      *)
(* every entry of the live table is the active hash function's hash of the *)
(* entry's key.                                                            *)
(***************************************************************************)
C9_SetHashFuncOnlyWhenEmpty ==
    [][/\ \A pFn \in HashFuncs :
            SetHashCall(pFn)
            => IF size > 0
               THEN /\ rc' = HT_MISUSE
                    /\ pfnHash' = pfnHash
                    /\ ppEntries' = ppEntries /\ heap' = heap /\ size' = size
               ELSE /\ rc' = HT_OK
                    /\ pfnHash' = pFn
       /\ phase' = "live" =>
            \A e \in DOMAIN heap' :
                heap'[e].hash
                    = CallHash(pfnHash', heap'[e].pKey, heap'[e].key_size)]_vars

\* Another hash function was installed on the empty table, entries were
\* inserted with it, and a further change was refused.
C9_Witness ==
    /\ op = "ht_set_hash_func"
    /\ rc = HT_MISUSE
    /\ size > 0
    /\ pfnHash = "dummy_hahser"

(***************************************************************************)
(* C10.  ht_remove of a key whose bucket, hash mod capacity, is empty      *)
(* returns HT_NOT_FOUND and leaves the table and the memory as they were.  *)
(***************************************************************************)
C10_RemoveEmptyBucket ==
    [][op' = "ht_remove" =>
        \A key \in Keys, ub \in UbOutcomes :
            (/\ ppEntries[HashMod(CallHash(pfnHash, key, Len(key)), capacity)]
                    = NULL
             /\ RemoveCall(key, ub))
            => /\ rc' = HT_NOT_FOUND
               /\ phase' = "live"
               /\ Table' = Table
               /\ Memory' = Memory]_vars

\* ht_remove was called on a table that never held an entry.
C10_Witness ==
    /\ op = "ht_remove"
    /\ okIns = 0
    /\ rc # HT_ARG_NULL

(***************************************************************************)
(* C11.  When ht_insert of a key that is not in the table fails to         *)
(* allocate the entry record, the key copy or the owned value copy, it     *)
(* returns HT_ALLOC_ERR and size, capacity, the bucket array and every     *)
(* entry are as before the call, also when the table was at its load limit *)
(* and the call had to grow it first.                                      *)
(***************************************************************************)
C11_AllocFailureRestores ==
    [][op' = "ht_insert" =>
        \A key \in {k \in GrowKeys :
                       Lookup(k, Table, Memory).rc = HT_NOT_FOUND} :
            \A v \in ValueArgs(key), alloc \in {"entry", "key", "data"},
               ub \in UbOutcomes :
                (/\ alloc = "data" => v.pfnFree = HT_TRANSIENT
                 /\ InsertCall(key, v, alloc, ub))
                => /\ rc' = HT_ALLOC_ERR
                   /\ size' = size /\ capacity' = capacity
                   /\ ppEntries' = ppEntries /\ heap' = heap]_vars

\* An insert into the full table has failed after the table was grown.
C11_Witness ==
    /\ op = "ht_insert"
    /\ rc = HT_ALLOC_ERR
    /\ capacity = HT_DEFAULT_CAP * HT_GROW_FACT
    /\ okIns = MaxFill

(***************************************************************************)
(* C12.  When ht_insert of a key that is not in the table has to grow the  *)
(* table and the allocation of the new bucket array fails, it returns      *)
(* HT_ALLOC_ERR, and the table (size, capacity, bucket array, hash         *)
(* function) and the memory (every entry, so every chain) are exactly as   *)
(* before the call.                                                        *)
(***************************************************************************)
C12_GrowAllocFailure ==
    [][(op' = "ht_insert" /\ NeedsGrowth(Table)) =>
        \A key \in {k \in GrowKeys :
                       Lookup(k, Table, Memory).rc = HT_NOT_FOUND} :
            \A v \in ValueArgs(key), ub \in UbOutcomes :
                InsertCall(key, v, "array", ub)
                => /\ rc' = HT_ALLOC_ERR
                   /\ Table' = Table
                   /\ Memory' = Memory]_vars

\* An insert has failed and left the table at its load limit, not grown.
C12_Witness ==
    /\ op = "ht_insert"
    /\ rc = HT_ALLOC_ERR
    /\ capacity = HT_DEFAULT_CAP
    /\ NeedsGrowth(Table)

(***************************************************************************)
(* C13.  ht_init with a valid ppHt either returns HT_ALLOC_ERR and leaves  *)
(* no table behind, when the allocation of the table structure or of the   *)
(* bucket array fails, or returns HT_OK with a table of size 0, capacity   *)
(* HT_DEFAULT_CAP and the default hash function; it always returns.        *)
(***************************************************************************)
C13_InitReportsAllocFailure ==
    (op = "ht_init" /\ rc # HT_ARG_NULL) =>
        \/ /\ rc = HT_ALLOC_ERR
           /\ phase = "none"
           /\ Table = NoTable
        \/ /\ rc = HT_OK
           /\ phase = "live"
           /\ size = 0
           /\ capacity = HT_DEFAULT_CAP
           /\ pfnHash = "default_hash_impl"
           /\ \A b \in DOMAIN ppEntries : ppEntries[b] = NULL

\* ht_init has met an allocation failure and reported it.
C13_Witness ==
    /\ op = "ht_init"
    /\ rc = HT_ALLOC_ERR

(***************************************************************************)
(* C14.  ht_insert, ht_get_item, ht_remove and ht_set_hash_func called     *)
(* with a null table handle or with another required pointer null (the     *)
(* key; the value of ht_insert; either output pointer of ht_get_item; the  *)
(* function of ht_set_hash_func) return HT_ARG_NULL, which is not          *)
(* HT_NOT_FOUND, and leave the table, the memory and the caller's output   *)
(* variables as they were.                                                 *)
(***************************************************************************)
\* This step is a call of the operation op' with the argument n null: what
\* the call gives is what the step does.
NullArgCall(n, key) ==
    \/ /\ op' = "ht_insert" /\ n \in {"pHt", "pKey", "pData"}
       /\ \E v \in ValueArgs(key) :
            LET r == ht_insert(Ptr(n, "pHt", Handle), Ptr(n, "pKey", KeyAddr),
                               key, Len(key), Ptr(n, "pData", DataAddr),
                               v.data_size, v.pfnFree, okIns + 1, "ok",
                               "benign", Table, Memory)
            IN  rc' = r.rc /\ Table' = r.t /\ Memory' = r.m
    \/ /\ op' = "ht_get_item" /\ n \in {"pHt", "pKey", "ppData", "pData_size"}
       /\ LET r == ht_get_item(Ptr(n, "pHt", Handle), Ptr(n, "pKey", KeyAddr),
                               key, Len(key), Ptr(n, "ppData", OutAddr),
                               Ptr(n, "pData_size", OutAddr), NoOut,
                               Table, Memory)
          IN  rc' = r.rc /\ out' = r.out /\ Table' = r.t /\ Memory' = r.m
    \/ /\ op' = "ht_remove" /\ n \in {"pHt", "pKey"}
       /\ LET r == ht_remove(Ptr(n, "pHt", Handle), Ptr(n, "pKey", KeyAddr),
                             key, Len(key), "benign", Table, Memory)
          IN  rc' = r.rc /\ Table' = r.t /\ Memory' = r.m
    \/ /\ op' = "ht_set_hash_func" /\ n \in {"pHt", "pFn"}
       /\ \E pFn \in HashFuncs :
            LET r == ht_set_hash_func(Ptr(n, "pHt", Handle),
                                      IF n = "pFn" THEN NULL_FN ELSE pFn,
                                      Table)
            IN  rc' = r.rc /\ Table' = r.t /\ Memory' = Memory

C14_NullArgumentRejected ==
    [][\A n \in {"pHt", "pKey", "pData", "ppData", "pData_size", "pFn"} :
            NullArgCall(n, SomeKey(Keys))
            => /\ rc' = HT_ARG_NULL
               /\ rc' # HT_NOT_FOUND
               /\ Table' = Table
               /\ Memory' = Memory
               /\ out' = NoOut
               /\ phase' = phase]_vars

\* Each of the four operations has been refused for a null argument on a
\* table that holds entries.
C14_Witness ==
    /\ rc = HT_ARG_NULL
    /\ op \in {"ht_insert", "ht_get_item", "ht_remove", "ht_set_hash_func"}
    /\ size > 0

(***************************************************************************)
(* C15.  The existence check, ht_has_key and its string-key form           *)
(* ht_strk_has_key, returns only 0 or 1; it returns 0 when the handle or   *)
(* the key is null; and the string-key form returns what ht_has_key        *)
(* returns for the string with its terminator.                             *)
(***************************************************************************)
C15_HasKeyIsBoolean ==
    [][op' \in {"ht_has_key", "ht_strk_has_key"} =>
        /\ rc' \in {0, 1}
        /\ \A key \in StrKeys, n \in {"none", "pHt", "pzKey"} :
            (/\ op' = "ht_strk_has_key"
             /\ rc' = ht_strk_has_key(Ptr(n, "pHt", Handle),
                                      Ptr(n, "pzKey", KeyAddr), key,
                                      Table, Memory))
            => rc' = ht_has_key(Ptr(n, "pHt", Handle),
                                Ptr(n, "pzKey", KeyAddr), key, Len(key),
                                Table, Memory)]_vars

\* The string-key existence check has been called with a null argument on a
\* table that holds an entry.
C15_Witness ==
    /\ op = "ht_strk_has_key"
    /\ rc \notin {1}
    /\ size > 0
    /\ Lookup(StrTest, Table, Memory).rc = HT_OK
    /\ Lookup(StrTest2, Table, Memory).rc = HT_OK

(***************************************************************************)
(* C16.  ht_get_item, ht_has_key and ht_get_size never change the table:   *)
(* the size, the capacity, the hash function, the bucket array and every   *)
(* chain with its entries are the same after the call, whatever it         *)
(* returns, and no growth happens.                                         *)
(***************************************************************************)
C16_ReadsLeaveTable ==
    [][op' \in {"ht_get_item", "ht_has_key", "ht_get_size"} =>
        /\ size' = size
        /\ capacity' = capacity
        /\ pfnHash' = pfnHash
        /\ ppEntries' = ppEntries
        /\ heap' = heap
        /\ mem' = mem
        /\ freed' = freed
        /\ calls' = calls]_vars

\* A lookup has found its key in a table whose bucket holds a chain of two.
C16_Witness ==
    /\ op = "ht_get_item"
    /\ rc = HT_OK
    /\ size >= 2
    /\ \E b \in DOMAIN ppEntries : Len(ChainSeq(heap, ppEntries[b])) >= 2

(***************************************************************************)
(* C17.  ht_remove of the key of the last entry of a chain of two or more  *)
(* entries returns HT_OK, the size is one less, the chain is the old chain *)
(* without its last entry, so that the predecessor is the new end, and the *)
(* call completes without an invalid memory access.                        *)
(***************************************************************************)
C17_RemoveChainTail ==
    [][op' = "ht_remove" =>
        \A b \in DOMAIN ppEntries :
            LET c == ChainSeq(heap, ppEntries[b])
            IN  \A ub \in UbOutcomes :
                    (Len(c) >= 2 /\ RemoveCall(heap[c[Len(c)]].pKey, ub))
                    => /\ rc' = HT_OK
                       /\ phase' = "live"
                       /\ size' = size - 1
                       /\ ChainSeq(heap', ppEntries'[b])
                              = SubSeq(c, 1, Len(c) - 1)
                       /\ heap'[c[Len(c) - 1]].pNext = NULL]_vars

\* Two entries were chained in one bucket and the call removing the second
\* has returned.
C17_Witness ==
    /\ op = "ht_remove"
    /\ rc = HT_OK
    /\ removed = {2}
    /\ \E b \in DOMAIN ppEntries : ChainSeq(heap, ppEntries[b]) = <<1>>

(***************************************************************************)
(* C18.  ht_remove of a key that is not in the table, while the bucket of  *)
(* that key holds other entries, returns HT_NOT_FOUND and leaves the size  *)
(* and every chain unchanged.                                              *)
(***************************************************************************)
C18_RemoveAbsentKey ==
    [][op' = "ht_remove" =>
        \A key \in Keys :
            (/\ EntriesOf(key, Table, heap) = {}
             /\ ppEntries[HashMod(CallHash(pfnHash, key, Len(key)), capacity)]
                    # NULL)
            => \A ub \in UbOutcomes :
                   RemoveCall(key, ub)
                   => /\ rc' = HT_NOT_FOUND
                      /\ size' = size
                      /\ ppEntries' = ppEntries
                      /\ heap' = heap
                      /\ mem' = mem]_vars

\* A removal has reported HT_NOT_FOUND on a table that holds entries in the
\* bucket of every key the caller uses.
C18_Witness ==
    /\ op = "ht_remove"
    /\ rc = HT_NOT_FOUND
    /\ phase = "live"
    /\ size >= 1
    /\ \A key \in Keys :
           ppEntries[HashMod(CallHash(pfnHash, key, Len(key)), capacity)]
               # NULL

(***************************************************************************)
(* C19.  An ht_insert of a key that is not a duplicate doubles the         *)
(* capacity exactly when size + 1 > 0.7 * capacity holds before the call   *)
(* (and the new bucket array can be allocated), and otherwise leaves the   *)
(* capacity unchanged; from the default capacity 31 the growth happens on  *)
(* the insert that makes the 22nd entry and gives capacity 62; a duplicate *)
(* insert and every other operation leave the capacity unchanged, so       *)
(* ht_remove never shrinks it.                                             *)
(***************************************************************************)
C19_GrowthThreshold ==
    [][/\ op' # "ht_insert" => capacity' = capacity
       /\ (op' = "ht_insert" /\ rc' = HT_DUPLICATE) => capacity' = capacity
       /\ op' = "ht_insert" =>
            \A key \in GrowKeys, alloc \in InsertAllocs \ {"array"},
               ub \in UbOutcomes :
                \A v \in ValueArgs(key) :
                    (InsertCall(key, v, alloc, ub) /\ rc' # HT_DUPLICATE)
                    => capacity' =
                         IF (size + 1) * 10 > capacity * 7
                         THEN 2 * capacity
                         ELSE capacity
       /\ (capacity = 31 /\ capacity' # capacity)
            => /\ op' = "ht_insert"
               /\ size + 1 = 22
               /\ okRem = 0 => okIns + 1 = 22
               /\ capacity' = 62]_vars

\* The 22nd insert, with no removal before it, has returned HT_OK and the
\* table has its second capacity.
C19_Witness ==
    /\ op = "ht_insert"
    /\ rc = HT_OK
    /\ okRem = 0
    /\ okIns = 22
    /\ size = 22
    /\ capacity = 62

(***************************************************************************)
(* C20.  In every reachable state of a live table the entries of each      *)
(* bucket's chain are in the order in which they were inserted: entry      *)
(* numbers are given in insertion order, and along every chain they        *)
(* increase.  Insert (tail append), remove (splice) and growth             *)
(* (relocation) keep it.                                                   *)
(***************************************************************************)
C20_ChainsInInsertionOrder ==
    phase = "live" =>
        \A b \in DOMAIN ppEntries :
            LET c == ChainSeq(heap, ppEntries[b])
            IN  \A i, j \in DOMAIN c : i < j => c[i] < c[j]

\* After the growth and a removal, a bucket holds a chain of two entries or
\* more, one of them inserted after the growth.
C20_Witness ==
    /\ phase = "live"
    /\ capacity = HT_DEFAULT_CAP * HT_GROW_FACT
    /\ okRem >= 1
    /\ \E b \in DOMAIN ppEntries :
           LET c == ChainSeq(heap, ppEntries[b])
           IN  Len(c) >= 2 /\ c[Len(c)] > MaxFill + 1

(***************************************************************************)
(* C21.  In every reachable state of a live table every entry is on the    *)
(* chain of the bucket (entry.hash mod capacity) and on no other chain,    *)
(* also right after a growth has changed the capacity.                     *)
(***************************************************************************)
C21_EntriesInTheirBucket ==
    phase = "live" =>
        /\ \A b \in DOMAIN ppEntries :
               \A e \in Range(ChainSeq(heap, ppEntries[b])) :
                   /\ HashMod(heap[e].hash, capacity) = b
                   /\ \A other \in (DOMAIN ppEntries) \ {b} :
                          e \notin Range(ChainSeq(heap, ppEntries[other]))
        /\ \A e \in DOMAIN heap :
               e \in Range(ChainSeq(heap,
                         ppEntries[HashMod(heap[e].hash, capacity)]))

\* An insert has just grown the table and an entry now sits in a bucket that
\* the old array did not have.
C21_Witness ==
    /\ phase = "live"
    /\ op = "ht_insert"
    /\ rc = HT_OK
    /\ capacity = HT_DEFAULT_CAP * HT_GROW_FACT
    /\ size = MaxFill + 1
    /\ \E b \in DOMAIN ppEntries : b >= HT_DEFAULT_CAP /\ ppEntries[b] # NULL

(***************************************************************************)
(* C22.  In every reachable state of a live table the size field is the    *)
(* total number of entries linked on the chains of all buckets.            *)
(***************************************************************************)
C22_SizeIsChainTotal ==
    phase = "live" =>
        /\ size = ChainTotal(Table, heap, 0)
        /\ size = Cardinality(LiveEntries(Table, heap))

\* Three entries were inserted and a removal has left two, on one chain or
\* on several.
C22_Witness ==
    /\ phase = "live"
    /\ op = "ht_remove"
    /\ rc = HT_OK
    /\ okIns = MaxInserts
    /\ size = MaxInserts - 1

(***************************************************************************)
(* C23.  In every reachable state of a live table no two entries have the  *)
(* same cached hash; and an ht_insert of a key whose hash is the hash of   *)
(* an entry of the table returns HT_DUPLICATE and changes nothing, also    *)
(* when the bytes of the key differ from that entry's key: a step of       *)
(* ht_insert with any other outcome is not a call with such a key.         *)
(***************************************************************************)
C23_OneEntryPerHash ==
    /\ [](phase = "live" =>
            \A e1, e2 \in LiveEntries(Table, heap) :
                heap[e1].hash = heap[e2].hash => e1 = e2)
    /\ [][(/\ op' = "ht_insert"
            /\ ~(rc' = HT_DUPLICATE /\ Table' = Table /\ Memory' = Memory))
           => \A key \in {k \in Keys :
                            \E e \in LiveEntries(Table, heap) :
                                heap[e].hash = CallHash(pfnHash, k, Len(k))} :
                  \A alloc \in InsertAllocs, ub \in UbOutcomes :
                      \A v \in ValueArgs(key) :
                          ~InsertCall(key, v, alloc, ub)]_vars

\* An insert has been rejected as a duplicate by a table that holds the key
\* {0x00, 0x01} and not the key {0x01}, which has the same hash.
C23_Witness ==
    /\ phase = "live"
    /\ op = "ht_insert"
    /\ rc = HT_DUPLICATE
    /\ EntriesOf(<<0, 1>>, Table, heap) # {}
    /\ EntriesOf(<<1>>, Table, heap) = {}
    /\ size = 1

(***************************************************************************)
(* C24.  In every reachable state after initialisation the size is at most *)
(* 0.7 * capacity, that is 10 * size <= 7 * capacity: one doubling per     *)
(* insert is enough to keep the load bound, and no sequence of inserts and *)
(* removes breaks it.                                                      *)
(***************************************************************************)
C24_LoadBound ==
    phase = "live" => 10 * size <= 7 * capacity

\* After a removal, inserts have grown the table and brought it to one entry
\* more than the first capacity can hold within the bound.
C24_Witness ==
    /\ phase = "live"
    /\ op = "ht_insert"
    /\ rc = HT_OK
    /\ okRem = 1
    /\ okIns = MaxFill + MaxGrowInserts
    /\ size = MaxFill + MaxGrowInserts - 1
    /\ capacity = HT_DEFAULT_CAP * HT_GROW_FACT

=============================================================================
